---- MODULE Spec2Model ----
(***************************************************************************)
(* Land Suitability Engine (src/app.py): the scoring core                  *)
(* (compute_parcel_score, simulate_sentiment_score, score_to_bucket,       *)
(* bucket_to_class) and the session state the sidebar keeps                *)
(* (ensure_slider_state_for_persona, apply_persona, render_sidebar).       *)
(*                                                                         *)
(* Numbers.  Python floats are modelled exactly: a score is the rational   *)
(* num/den (den > 0).  Every intermediate value of the code is an integer  *)
(* far below 2^53, so the only rounding of the code is the final division, *)
(* which is monotone and exact whenever the quotient is an integer.        *)
(* Texts are sequences of one-character strings.                           *)
(***************************************************************************)
EXTENDS Integers, Sequences, FiniteSets, TLC

VARIABLES
    \* --- one call of compute_parcel_score -------------------------------
    parcel,                 \* argument: the parcel record
    weights,                \* argument: the weights dict
    flood_risk_slider,      \* argument
    pc,                     \* position in the call: start, summed, done
    weighted_sum,           \* local
    total_weight,           \* local
    factor_contributions,   \* local dict label -> contribution
    ret,                    \* the returned pair (score, contributions)
    divided,                \* TRUE once line 286 has divided
    \* --- one call of simulate_sentiment_score ---------------------------
    text,                   \* argument
    spc,                    \* position in the call: start, counted, done
    t,                      \* local: text.lower()
    pos_hits,               \* local
    neg_hits,               \* local
    sret,                   \* the returned int
    \* --- one score through score_to_bucket / bucket_to_class ------------
    bscore,                 \* argument of both
    bpc,                    \* start, bucketed, done
    bucket,                 \* score_to_bucket's result
    pill_class,             \* bucket_to_class's result
    \* --- the session (st.session_state and the widgets' values) ----------
    session_state,          \* w_<key> entries: key -> value or NotInState
    persona,                \* the selectbox's value
    transcript,             \* the text area's value
    last_scraped_sentiment, \* << >> when the key is absent, else <<score>>
    parcel_scores,          \* main's parcel_scores of the last script run
    steps,                  \* number of user interactions so far
    last_op,                \* history: the interaction that ran last
    selected                \* history: personas the selectbox has shown

scoreVars == <<parcel, weights, flood_risk_slider, pc, weighted_sum,
               total_weight, factor_contributions, ret, divided>>
sentVars == <<text, spc, t, pos_hits, neg_hits, sret>>
bucketVars == <<bscore, bpc, bucket, pill_class>>
sessVars == <<session_state, persona, transcript, last_scraped_sentiment,
              parcel_scores, steps, last_op, selected>>
vars == <<scoreVars, sentVars, bucketVars, sessVars>>

----------------------------------------------------------------------------
(* Arithmetic helpers: Python's max, min, and exact rationals.             *)

Max(a, b) == IF a >= b THEN a ELSE b
Min(a, b) == IF a <= b THEN a ELSE b

\* the float 0.0 the code returns on its two early returns
Zero == [num |-> 0, den |-> 1]

----------------------------------------------------------------------------
(* Static data.                                                            *)

MaxWeight == 10
MaxFactor == 100
GateThreshold == 7

ParcelNames == <<"Rosemount", "Farmington", "Becker">>

\* city, lat and lon are left out: no function of the scoring core reads them
TAP_DATA ==
    [Rosemount |->
        [power_dist |-> 92, fiber_dist |-> 88, water_access |-> 85,
         highway_access |-> 78, rail_access |-> 60, solar_potential |-> 74,
         wind_potential |-> 58, flood_zone_bool |-> FALSE,
         historical_contamination |-> 15, council_sentiment |-> 82],
     Farmington |->
        [power_dist |-> 80, fiber_dist |-> 75, water_access |-> 72,
         highway_access |-> 82, rail_access |-> 68, solar_potential |-> 79,
         wind_potential |-> 65, flood_zone_bool |-> TRUE,
         historical_contamination |-> 28, council_sentiment |-> 70],
     Becker |->
        [power_dist |-> 96, fiber_dist |-> 70, water_access |-> 90,
         highway_access |-> 88, rail_access |-> 92, solar_potential |-> 69,
         wind_potential |-> 83, flood_zone_bool |-> FALSE,
         historical_contamination |-> 40, council_sentiment |-> 76]]

Personas == {"Data Center", "Industrial", "Solar"}

WeightKeys == {"power", "fiber", "water", "highway", "rail", "solar", "wind",
               "flood_risk", "sentiment"}

PERSONA_WEIGHTS ==
    [p \in Personas |->
        CASE p = "Data Center" ->
               [power |-> 10, fiber |-> 9, water |-> 5, highway |-> 4,
                rail |-> 2, solar |-> 5, wind |-> 2, flood_risk |-> 9,
                sentiment |-> 7]
          [] p = "Industrial" ->
               [power |-> 8, fiber |-> 6, water |-> 7, highway |-> 9,
                rail |-> 8, solar |-> 3, wind |-> 3, flood_risk |-> 7,
                sentiment |-> 6]
          [] p = "Solar" ->
               [power |-> 4, fiber |-> 3, water |-> 4, highway |-> 5,
                rail |-> 3, solar |-> 10, wind |-> 7, flood_risk |-> 10,
                sentiment |-> 6]]

----------------------------------------------------------------------------
(* compute_parcel_score                                                    *)

\* the keys of factor_scores, in the dict's insertion (= iteration) order
FactorLabels == <<"Power", "Fiber", "Water", "Highway", "Rail", "Solar GHI",
                  "Wind", "Low Flood Exposure", "Clean History",
                  "Council Sentiment">>

EmptyMap == [l \in {} |-> 0]

GateFires_strict(p, slider) == slider > GateThreshold /\ p.flood_zone_bool

\* line 227: the zero-out gate
GateFires(p, slider) == slider >= GateThreshold /\ p.flood_zone_bool

\* lines 232-253
factor_scores(p, slider) ==
    [l \in {FactorLabels[i] : i \in 1..Len(FactorLabels)} |->
        CASE l = "Power" -> p.power_dist
          [] l = "Fiber" -> p.fiber_dist
          [] l = "Water" -> p.water_access
          [] l = "Highway" -> p.highway_access
          [] l = "Rail" -> p.rail_access
          [] l = "Solar GHI" -> p.solar_potential
          [] l = "Wind" -> p.wind_potential
          [] l = "Low Flood Exposure" ->
               IF ~p.flood_zone_bool THEN 100
               ELSE Max(0, 100 - 10 * slider)
          [] l = "Clean History" -> 100 - p.historical_contamination
          [] l = "Council Sentiment" -> p.council_sentiment]

weight_mapping_split ==
    [l \in {FactorLabels[i] : i \in 1..Len(FactorLabels)} |->
        CASE l = "Power" -> "power"
          [] l = "Fiber" -> "fiber"
          [] l = "Water" -> "water"
          [] l = "Highway" -> "highway"
          [] l = "Rail" -> "rail"
          [] l = "Solar GHI" -> "solar"
          [] l = "Wind" -> "wind"
          [] l = "Low Flood Exposure" -> "flood_risk"
          [] l = "Council Sentiment" -> "sentiment"
          [] l = "Clean History" -> "flood_risk"]

\* lines 256-267
weight_mapping ==
    [l \in {FactorLabels[i] : i \in 1..Len(FactorLabels)} |->
        CASE l = "Power" -> "power"
          [] l = "Fiber" -> "fiber"
          [] l = "Water" -> "water"
          [] l = "Highway" -> "highway"
          [] l = "Rail" -> "rail"
          [] l = "Solar GHI" -> "solar"
          [] l = "Wind" -> "wind"
          [] l = "Low Flood Exposure" -> "flood_risk"
          [] l = "Council Sentiment" -> "sentiment"
          [] l = "Clean History" -> "sentiment"]

\* weights.get(key, 0.0)
WeightsGet(ws, key) == IF key \in DOMAIN ws THEN ws[key] ELSE 0

LoopBody_keepzero(acc, label, raw, w) ==
    IF w < 0 THEN acc
    ELSE [weighted_sum |-> acc.weighted_sum + raw * w,
          total_weight |-> acc.total_weight + w * MaxFactor,
          factor_contributions |->
              (label :> raw * w) @@ acc.factor_contributions]

LoopBody_unscaled(acc, label, raw, w) ==
    IF w <= 0 THEN acc
    ELSE [weighted_sum |-> acc.weighted_sum + raw * w,
          total_weight |-> acc.total_weight + w * MaxWeight,
          factor_contributions |->
              (label :> raw * w) @@ acc.factor_contributions]

\* lines 274-281: one iteration of the loop over factor_scores.items()
LoopBody(acc, label, raw, w) ==
    IF w <= 0 THEN acc
    ELSE [weighted_sum |-> acc.weighted_sum + raw * w,
          total_weight |-> acc.total_weight + w * MaxFactor,
          factor_contributions |->
              (label :> raw * w) @@ acc.factor_contributions]

RECURSIVE Loop(_, _, _, _)
\* lines 269-281: the loop from its i-th label on
Loop(fs, ws, i, acc) ==
    IF i > Len(FactorLabels) THEN acc
    ELSE Loop(fs, ws, i + 1,
              LoopBody(acc, FactorLabels[i], fs[FactorLabels[i]],
                       WeightsGet(ws, weight_mapping[FactorLabels[i]])))

\* lines 232-281
Accumulated(p, ws, slider) ==
    Loop(factor_scores(p, slider), ws, 1,
         [weighted_sum |-> 0, total_weight |-> 0,
          factor_contributions |-> EmptyMap])

Quotient_fraction(ws, tw) == [num |-> ws, den |-> tw]

\* line 286: 100.0 * weighted_sum / total_weight
Quotient(ws, tw) == [num |-> 100 * ws, den |-> tw]

\* lines 224-287, the whole call
compute_parcel_score(p, ws, slider) ==
    IF GateFires(p, slider)
    THEN [score |-> Zero, contributions |-> EmptyMap]
    ELSE LET acc == Accumulated(p, ws, slider)
         IN  IF acc.total_weight = 0
             THEN [score |-> Zero,
                   contributions |-> acc.factor_contributions]
             ELSE [score |-> Quotient(acc.weighted_sum, acc.total_weight),
                   contributions |-> acc.factor_contributions]

----------------------------------------------------------------------------
(* One call of compute_parcel_score, step by step.                         *)

FactorSamples == {0, MaxFactor}

\* a parcel whose seven pass-through factors all have the value v
UniformParcel(v, c, s, f) ==
    [power_dist |-> v, fiber_dist |-> v, water_access |-> v,
     highway_access |-> v, rail_access |-> v, solar_potential |-> v,
     wind_potential |-> v, flood_zone_bool |-> f,
     historical_contamination |-> c, council_sentiment |-> s]

ScoreParcels ==
    {TAP_DATA[ParcelNames[i]] : i \in 1..Len(ParcelNames)}
    \cup {UniformParcel(v, c, s, f) :
            v \in FactorSamples, c \in FactorSamples, s \in FactorSamples,
            f \in BOOLEAN}

\* every zero / non-zero pattern of the nine weights, and every persona's
\* defaults with one slider moved anywhere in its range
ScoreWeights ==
    {[k \in WeightKeys |-> IF k \in A THEN MaxWeight ELSE 0] :
        A \in SUBSET WeightKeys}
    \cup {[PERSONA_WEIGHTS[p] EXCEPT ![k] = v] :
            p \in Personas, k \in WeightKeys, v \in 0..MaxWeight}

ScoreIdle ==
    /\ parcel = TAP_DATA.Rosemount
    /\ weights = PERSONA_WEIGHTS["Data Center"]
    /\ flood_risk_slider = 0
    /\ pc = "idle"
    /\ weighted_sum = 0
    /\ total_weight = 0
    /\ factor_contributions = EmptyMap
    /\ ret = [score |-> Zero, contributions |-> EmptyMap]
    /\ divided = FALSE

\* the function is entered with any flood_risk_slider of the slider's range:
\* the signature takes it beside the weights (main passes the flood_risk
\* weight, line 509)
ScoreInit ==
    /\ parcel \in ScoreParcels
    /\ weights \in ScoreWeights
    /\ flood_risk_slider \in 0..MaxWeight
    /\ pc = "start"
    /\ weighted_sum = 0
    /\ total_weight = 0
    /\ factor_contributions = EmptyMap
    /\ ret = [score |-> Zero, contributions |-> EmptyMap]
    /\ divided = FALSE

\* lines 224-228
GateReturn ==
    /\ pc = "start"
    /\ GateFires(parcel, flood_risk_slider)
    /\ ret' = [score |-> Zero, contributions |-> EmptyMap]
    /\ pc' = "done"
    /\ UNCHANGED <<parcel, weights, flood_risk_slider, weighted_sum,
                   total_weight, factor_contributions, divided>>

\* lines 230-281
Accumulate ==
    /\ pc = "start"
    /\ ~GateFires(parcel, flood_risk_slider)
    /\ LET acc == Accumulated(parcel, weights, flood_risk_slider)
       IN  /\ weighted_sum' = acc.weighted_sum
           /\ total_weight' = acc.total_weight
           /\ factor_contributions' = acc.factor_contributions
    /\ pc' = "summed"
    /\ UNCHANGED <<parcel, weights, flood_risk_slider, ret, divided>>

\* lines 283-284
ZeroFallback ==
    /\ pc = "summed"
    /\ total_weight = 0
    /\ ret' = [score |-> Zero, contributions |-> factor_contributions]
    /\ pc' = "done"
    /\ UNCHANGED <<parcel, weights, flood_risk_slider, weighted_sum,
                   total_weight, factor_contributions, divided>>

\* lines 286-287
Normalize ==
    /\ pc = "summed"
    /\ total_weight # 0
    /\ ret' = [score |-> Quotient(weighted_sum, total_weight),
               contributions |-> factor_contributions]
    /\ divided' = TRUE
    /\ pc' = "done"
    /\ UNCHANGED <<parcel, weights, flood_risk_slider, weighted_sum,
                   total_weight, factor_contributions>>

----------------------------------------------------------------------------
(* simulate_sentiment_score                                                *)

UpperChars == <<"A", "B", "C", "D", "E", "F", "G", "H", "I", "J", "K", "L",
                "M", "N", "O", "P", "Q", "R", "S", "T", "U", "V", "W", "X",
                "Y", "Z">>
LowerChars == <<"a", "b", "c", "d", "e", "f", "g", "h", "i", "j", "k", "l",
                "m", "n", "o", "p", "q", "r", "s", "t", "u", "v", "w", "x",
                "y", "z">>

\* str.lower() on the upper-case ASCII letters
UpperToLower ==
    [c \in {UpperChars[i] : i \in 1..Len(UpperChars)} |->
        LowerChars[CHOOSE i \in 1..Len(UpperChars) : UpperChars[i] = c]]

\* str.lower() on one character (every other character of the texts below
\* is its own lower case)
LowerChar(c) == IF c \in DOMAIN UpperToLower THEN UpperToLower[c] ELSE c

\* line 184: text.lower()  (\o makes the result a sequence in normal form)
Lower(s) == [i \in 1..Len(s) |-> LowerChar(s[i])] \o << >>

\* the characters str.strip() removes
IsSpace(c) == c \in {" ", "\t", "\n"}

\* line 181: not text or not text.strip()
IsBlank(s) == Len(s) = 0 \/ \A i \in 1..Len(s) : IsSpace(s[i])

w_support ==
    <<"s", "u", "p", "p", "o", "r", "t">>
w_in_favor ==
    <<"i", "n", " ", "f", "a", "v", "o", "r">>
w_approve ==
    <<"a", "p", "p", "r", "o", "v", "e">>
w_opportunity ==
    <<"o", "p", "p", "o", "r", "t", "u", "n", "i", "t", "y">>
w_jobs ==
    <<"j", "o", "b", "s">>
w_investment ==
    <<"i", "n", "v", "e", "s", "t", "m", "e", "n", "t">>
w_strategic ==
    <<"s", "t", "r", "a", "t", "e", "g", "i", "c">>
w_tax_base ==
    <<"t", "a", "x", " ", "b", "a", "s", "e">>
w_oppose ==
    <<"o", "p", "p", "o", "s", "e">>
w_against ==
    <<"a", "g", "a", "i", "n", "s", "t">>
w_concern ==
    <<"c", "o", "n", "c", "e", "r", "n">>
w_delay ==
    <<"d", "e", "l", "a", "y">>
w_litigation ==
    <<"l", "i", "t", "i", "g", "a", "t", "i", "o", "n">>
w_moratorium ==
    <<"m", "o", "r", "a", "t", "o", "r", "i", "u", "m">>
w_protest ==
    <<"p", "r", "o", "t", "e", "s", "t">>
w_traffic ==
    <<"t", "r", "a", "f", "f", "i", "c">>
w_pollution ==
    <<"p", "o", "l", "l", "u", "t", "i", "o", "n">>

positive_words_nojobs ==
    <<w_support, w_in_favor, w_approve, w_opportunity,
      w_investment, w_strategic, w_tax_base>>

\* lines 185-194
positive_words ==
    <<w_support, w_in_favor, w_approve, w_opportunity,
      w_jobs, w_investment, w_strategic, w_tax_base>>

\* lines 195-205
negative_words ==
    <<w_oppose, w_against, w_concern, w_delay, w_litigation,
      w_moratorium, w_protest, w_traffic, w_pollution>>

\* does w occur in s at position i
MatchAt(s, w, i) ==
    /\ i + Len(w) - 1 <= Len(s)
    /\ \A j \in 1..Len(w) : s[i + j - 1] = w[j]

\* s.find(w, i): the first position >= i where w occurs in s, 0 when
\* there is none (Python's -1)
Find(s, w, i) ==
    LET found == {j \in i..(Len(s) - Len(w) + 1) : MatchAt(s, w, j)}
    IN  IF found = {} THEN 0
        ELSE CHOOSE j \in found : \A k \in found : j <= k

RECURSIVE CountFrom_overlapping(_, _, _)
CountFrom_overlapping(s, w, i) ==
    IF Find(s, w, i) = 0 THEN 0
    ELSE 1 + CountFrom_overlapping(s, w, Find(s, w, i) + 1)

RECURSIVE CountFrom(_, _, _)
\* str.count(w) from position i on: the scan resumes after each occurrence
\* it counts, so the occurrences counted do not overlap
CountFrom(s, w, i) ==
    IF Find(s, w, i) = 0 THEN 0
    ELSE 1 + CountFrom(s, w, Find(s, w, i) + Len(w))

\* s.count(w)
Count(s, w) == CountFrom(s, w, 1)

RECURSIVE SumCounts(_, _, _)
\* lines 207-208: sum(t.count(w) for w in words), from the i-th word on
SumCounts(s, words, i) ==
    IF i > Len(words) THEN 0
    ELSE Count(s, words[i]) + SumCounts(s, words, i + 1)

\* line 211: int(max(0, min(100, base)))
Clamp(base) == Max(0, Min(100, base))

\* lines 181-211, the whole call
simulate_sentiment_score(s) ==
    IF IsBlank(s) THEN 50
    ELSE LET low == Lower(s)
             p == SumCounts(low, positive_words, 1)
             n == SumCounts(low, negative_words, 1)
         IN  Clamp(50 + 10 * (p - n))

\* the two example transcripts of the specification
SupportText ==
    <<"W", "e", " ", "s", "t", "r", "o", "n", "g", "l", "y", " ", "s", "u",
      "p", "p", "o", "r", "t", " ", "t", "h", "i", "s", " ", "i", "n", "v",
      "e", "s", "t", "m", "e", "n", "t", " ", "a", "n", "d", " ", "t", "h",
      "e", " ", "j", "o", "b", "s", " ", "i", "t", " ", "b", "r", "i", "n",
      "g", "s">>
OpposeText ==
    <<"R", "e", "s", "i", "d", "e", "n", "t", "s", " ", "o", "p", "p", "o",
      "s", "e", " ", "t", "h", "i", "s", " ", "d", "u", "e", " ", "t", "o",
      " ", "t", "r", "a", "f", "f", "i", "c", " ", "a", "n", "d", " ", "p",
      "o", "l", "l", "u", "t", "i", "o", "n", " ", "c", "o", "n", "c", "e",
      "r", "n", "s">>

MaxFrags == 2

\* the pieces the input texts are put together from: every term, the two
\* example transcripts, white space, letters in upper case, and the tail of
\* a term that overlaps its own head
Fragments ==
    {positive_words[i] : i \in 1..Len(positive_words)}
    \cup {negative_words[i] : i \in 1..Len(negative_words)}
    \cup {SupportText, OpposeText,
          <<" ">>, <<"\t">>, <<"x">>,
          <<"S", "u", "p", "p", "o", "r", "t">>,
          <<"T", "R", "A", "F", "F", "I", "C">>,
          <<"o", "r", "a", "t", "o", "r", "i", "u", "m">>}

RECURSIVE TextsOf(_)
\* the texts made of exactly n fragments
TextsOf(n) ==
    IF n = 0 THEN {<< >>}
    ELSE {x \o f : x \in TextsOf(n - 1), f \in Fragments}

Texts == UNION {TextsOf(n) : n \in 0..MaxFrags}

SentIdle ==
    /\ text = << >>
    /\ spc = "idle"
    /\ t = << >>
    /\ pos_hits = 0
    /\ neg_hits = 0
    /\ sret = 0

SentInit ==
    /\ text \in Texts
    /\ spc = "start"
    /\ t = << >>
    /\ pos_hits = 0
    /\ neg_hits = 0
    /\ sret = 0

\* lines 181-182
ReturnNeutral ==
    /\ spc = "start"
    /\ IsBlank(text)
    /\ sret' = 50
    /\ spc' = "done"
    /\ UNCHANGED <<text, t, pos_hits, neg_hits>>

\* lines 184-208
CountHits ==
    /\ spc = "start"
    /\ ~IsBlank(text)
    /\ t' = Lower(text)
    /\ pos_hits' = SumCounts(Lower(text), positive_words, 1)
    /\ neg_hits' = SumCounts(Lower(text), negative_words, 1)
    /\ spc' = "counted"
    /\ UNCHANGED <<text, sret>>

\* lines 210-211
ClampReturn ==
    /\ spc = "counted"
    /\ sret' = Clamp(50 + 10 * (pos_hits - neg_hits))
    /\ spc' = "done"
    /\ UNCHANGED <<text, t, pos_hits, neg_hits>>

----------------------------------------------------------------------------
(* score_to_bucket, bucket_to_class                                        *)

\* score >= n, for the rational score
AtLeast(score, n) == score.num >= n * score.den

score_to_bucket_strict(score) ==
    IF score.num > 75 * score.den THEN "High"
    ELSE IF AtLeast(score, 50) THEN "Medium"
    ELSE "Low"

\* lines 290-295
score_to_bucket(score) ==
    IF AtLeast(score, 75) THEN "High"
    ELSE IF AtLeast(score, 50) THEN "Medium"
    ELSE "Low"

\* lines 298-303
bucket_to_class(score) ==
    IF AtLeast(score, 75) THEN "pill-high"
    ELSE IF AtLeast(score, 50) THEN "pill-medium"
    ELSE "pill-low"

BucketDen == 4

\* the scores 0, 1/BucketDen, ..., 100, and the specification's two
\* examples just below a threshold
BucketScores ==
    {[num |-> n, den |-> BucketDen] : n \in 0..(100 * BucketDen)}
    \cup {[num |-> 74999, den |-> 1000], [num |-> 49999, den |-> 1000]}

BucketIdle ==
    /\ bscore = Zero
    /\ bpc = "idle"
    /\ bucket = "none"
    /\ pill_class = "none"

BucketInit ==
    /\ bscore \in BucketScores
    /\ bpc = "start"
    /\ bucket = "none"
    /\ pill_class = "none"

\* line 534
ScoreToBucket ==
    /\ bpc = "start"
    /\ bucket' = score_to_bucket(bscore)
    /\ bpc' = "bucketed"
    /\ UNCHANGED <<bscore, pill_class>>

\* line 535
BucketToClass ==
    /\ bpc = "bucketed"
    /\ pill_class' = bucket_to_class(bscore)
    /\ bpc' = "done"
    /\ UNCHANGED <<bscore, bucket>>

----------------------------------------------------------------------------
(* The session: st.session_state, the sidebar and main.                    *)

\* the value that stands for "state_key not in st.session_state"
NotInState == -1

\* lines 160-166
ensure_slider_state_for_persona(ss, p) ==
    [k \in WeightKeys |->
        IF ss[k] = NotInState THEN PERSONA_WEIGHTS[p][k] ELSE ss[k]]

\* lines 169-173
apply_persona(ss, p) == [k \in WeightKeys |-> PERSONA_WEIGHTS[p][k]]

\* Python's round(n / d) for integers n >= 0, d > 0: ties go to the even
\* neighbour
RoundHalfEven(n, d) ==
    LET q == n \div d
        r == n % d
    IN  IF 2 * r < d THEN q
        ELSE IF 2 * r > d THEN q + 1
        ELSE IF q % 2 = 0 THEN q ELSE q + 1

suggested_weight_unscaled(sentiment_score) == sentiment_score

\* line 420: int(round(sentiment_score / 10))
suggested_weight(sentiment_score) == RoundHalfEven(sentiment_score, 10)

\* lines 431-441: the dict render_sidebar returns (the sliders' values are
\* the session's w_<key> entries)
SidebarWeights(ss) == [k \in WeightKeys |-> ss[k]]

\* lines 503-511: main's parcel_scores
ParcelScoresOf(ss) ==
    [n \in {ParcelNames[i] : i \in 1..Len(ParcelNames)} |->
        compute_parcel_score(TAP_DATA[n], SidebarWeights(ss),
                             SidebarWeights(ss)["flood_risk"]).score]

MaxSteps == 3

\* the values a slider is dragged to: both ends of its range, and the
\* largest value below the gate
SliderSamples == {0, GateThreshold - 1, MaxWeight}

\* the transcripts pasted into the text area
SessionTexts ==
    {SupportText, OpposeText, SupportText \o SupportText,
     OpposeText \o OpposeText}

Loaded == \A k \in WeightKeys : session_state[k] # NotInState

SessIdle ==
    /\ session_state = [k \in WeightKeys |-> NotInState]
    /\ persona = "Data Center"
    /\ transcript = << >>
    /\ last_scraped_sentiment = << >>
    /\ parcel_scores = [n \in {ParcelNames[i] : i \in 1..Len(ParcelNames)}
                          |-> Zero]
    /\ steps = 0
    /\ last_op = "none"
    /\ selected = {}

\* the first script run of a session: the selectbox shows its first option
\* (line 312), nothing is in st.session_state
FirstLoad ==
    /\ ~Loaded
    /\ persona' = "Data Center"
    /\ session_state' = ensure_slider_state_for_persona(session_state,
                                                        "Data Center")
    /\ parcel_scores' = ParcelScoresOf(session_state')
    /\ last_op' = "load"
    /\ selected' = {"Data Center"}
    /\ UNCHANGED <<transcript, last_scraped_sentiment, steps>>

\* the user picks persona p in the selectbox: lines 310-317, then main
SelectPersona(p) ==
    /\ Loaded
    /\ steps < MaxSteps
    /\ p # persona
    /\ persona' = p
    /\ session_state' = ensure_slider_state_for_persona(session_state, p)
    /\ parcel_scores' = ParcelScoresOf(session_state')
    /\ steps' = steps + 1
    /\ last_op' = "select"
    /\ selected' = selected \cup {p}
    /\ UNCHANGED <<transcript, last_scraped_sentiment>>

\* the user drags slider k to v (lines 328-405: min_value 0, max_value 10);
\* the widget's value is the session's w_<k> entry when the script reruns
MoveSlider(k, v) ==
    /\ Loaded
    /\ steps < MaxSteps
    /\ v # session_state[k]
    /\ session_state' = ensure_slider_state_for_persona(
                            [session_state EXCEPT ![k] = v], persona)
    /\ parcel_scores' = ParcelScoresOf(session_state')
    /\ steps' = steps + 1
    /\ last_op' = "slider"
    /\ UNCHANGED <<persona, transcript, last_scraped_sentiment, selected>>

\* the user presses "Reset to Institutional Weights": lines 317-322, and
\* the rerun the handler asks for
ResetWeights ==
    /\ Loaded
    /\ steps < MaxSteps
    /\ session_state' = ensure_slider_state_for_persona(
                            apply_persona(
                                ensure_slider_state_for_persona(
                                    session_state, persona),
                                persona),
                            persona)
    /\ parcel_scores' = ParcelScoresOf(session_state')
    /\ steps' = steps + 1
    /\ last_op' = "reset"
    /\ UNCHANGED <<persona, transcript, last_scraped_sentiment, selected>>

\* the user edits the text area (lines 409-414)
SetTranscript(x) ==
    /\ Loaded
    /\ steps < MaxSteps
    /\ x # transcript
    /\ transcript' = x
    /\ session_state' = ensure_slider_state_for_persona(session_state,
                                                        persona)
    /\ parcel_scores' = ParcelScoresOf(session_state')
    /\ steps' = steps + 1
    /\ last_op' = "transcript"
    /\ UNCHANGED <<persona, last_scraped_sentiment, selected>>

\* the user presses "Run AI Sentiment Scraper": lines 416-423, and the
\* rerun the handler asks for
RunScraper ==
    /\ Loaded
    /\ steps < MaxSteps
    /\ LET sentiment_score == simulate_sentiment_score(transcript)
       IN  /\ session_state' =
                 ensure_slider_state_for_persona(
                     [ensure_slider_state_for_persona(session_state, persona)
                        EXCEPT !["sentiment"] =
                            suggested_weight(sentiment_score)],
                     persona)
           /\ last_scraped_sentiment' = <<sentiment_score>>
    /\ parcel_scores' = ParcelScoresOf(session_state')
    /\ steps' = steps + 1
    /\ last_op' = "scrape"
    /\ UNCHANGED <<persona, transcript, selected>>

----------------------------------------------------------------------------
(* Specifications.                                                         *)

\* the session
Init == SessIdle /\ ScoreIdle /\ SentIdle /\ BucketIdle

Next ==
    \/ FirstLoad /\ UNCHANGED <<scoreVars, sentVars, bucketVars>>
    \/ \E p \in Personas :
          SelectPersona(p) /\ UNCHANGED <<scoreVars, sentVars, bucketVars>>
    \/ \E k \in WeightKeys, v \in SliderSamples :
          MoveSlider(k, v) /\ UNCHANGED <<scoreVars, sentVars, bucketVars>>
    \/ ResetWeights /\ UNCHANGED <<scoreVars, sentVars, bucketVars>>
    \/ \E x \in SessionTexts \cup {<< >>} :
          SetTranscript(x) /\ UNCHANGED <<scoreVars, sentVars, bucketVars>>
    \/ RunScraper /\ UNCHANGED <<scoreVars, sentVars, bucketVars>>

Spec == Init /\ [][Next]_vars

\* one call of compute_parcel_score on each input
InitScore == ScoreInit /\ SessIdle /\ SentIdle /\ BucketIdle

NextScore ==
    \/ GateReturn /\ UNCHANGED <<sessVars, sentVars, bucketVars>>
    \/ Accumulate /\ UNCHANGED <<sessVars, sentVars, bucketVars>>
    \/ ZeroFallback /\ UNCHANGED <<sessVars, sentVars, bucketVars>>
    \/ Normalize /\ UNCHANGED <<sessVars, sentVars, bucketVars>>

SpecScore == InitScore /\ [][NextScore]_vars

\* one call of simulate_sentiment_score on each text
InitSent == SentInit /\ SessIdle /\ ScoreIdle /\ BucketIdle

NextSent ==
    \/ ReturnNeutral /\ UNCHANGED <<sessVars, scoreVars, bucketVars>>
    \/ CountHits /\ UNCHANGED <<sessVars, scoreVars, bucketVars>>
    \/ ClampReturn /\ UNCHANGED <<sessVars, scoreVars, bucketVars>>

SpecSent == InitSent /\ [][NextSent]_vars

\* one score through the two bucket functions, as main's ranking loop
InitBucket == BucketInit /\ SessIdle /\ ScoreIdle /\ SentIdle

NextBucket ==
    \/ ScoreToBucket /\ UNCHANGED <<sessVars, scoreVars, sentVars>>
    \/ BucketToClass /\ UNCHANGED <<sessVars, scoreVars, sentVars>>

SpecBucket == InitBucket /\ [][NextBucket]_vars

----------------------------------------------------------------------------
(* Properties of compute_parcel_score, checked under SpecScore.            *)

AllWeightsZero == \A k \in WeightKeys : weights[k] = 0

\* C1.  Zero-out gate: for a parcel in a flood zone and a flood-risk
\* aversion weight of 7 or more, the call returns score exactly 0 and an
\* empty contributions map, whatever the other weights and factor values.
C1_ZeroOutGate ==
    (parcel.flood_zone_bool /\ flood_risk_slider >= 7) =>
        /\ pc = "done" =>
              /\ ret.score.num = 0
              /\ DOMAIN ret.contributions = {}
        /\ compute_parcel_score(parcel, weights, flood_risk_slider).score.num
              = 0
        /\ DOMAIN compute_parcel_score(parcel, weights,
                                       flood_risk_slider).contributions = {}

\* the Farmington parcel at flood_risk = 7 with positive other weights
C1_Witness ==
    /\ pc = "done"
    /\ parcel = TAP_DATA.Farmington
    /\ flood_risk_slider = 7
    /\ weights = PERSONA_WEIGHTS["Industrial"]
    /\ ret.score.num = 0
    /\ DOMAIN ret.contributions = {}

\* C2.  Score range: with the nine raw factors in [0,100] and the nine
\* weights integers in [0,10], 0 <= weighted_sum <= total_weight and the
\* returned score lies in [0,100].
C2_ScoreRange ==
    /\ pc \in {"summed", "done"} =>
          /\ 0 <= weighted_sum
          /\ weighted_sum <= total_weight
    /\ pc = "done" =>
          /\ ret.score.den > 0
          /\ 0 <= ret.score.num
          /\ ret.score.num <= 100 * ret.score.den

\* a division that returns exactly 100
C2_Witness ==
    /\ pc = "done"
    /\ divided
    /\ total_weight > 0
    /\ ret.score.num = 100 * ret.score.den

\* the factor value and the weight the specification gives each label
C3_Value(l) ==
    IF l = "Power" THEN parcel.power_dist
    ELSE IF l = "Fiber" THEN parcel.fiber_dist
    ELSE IF l = "Water" THEN parcel.water_access
    ELSE IF l = "Highway" THEN parcel.highway_access
    ELSE IF l = "Rail" THEN parcel.rail_access
    ELSE IF l = "Solar GHI" THEN parcel.solar_potential
    ELSE IF l = "Wind" THEN parcel.wind_potential
    ELSE IF l = "Clean History" THEN 100 - parcel.historical_contamination
    ELSE IF l = "Council Sentiment" THEN parcel.council_sentiment
    ELSE IF ~parcel.flood_zone_bool THEN 100
    ELSE IF 10 * flood_risk_slider >= 100 THEN 0
    ELSE 100 - 10 * flood_risk_slider

C3_Weight(l) ==
    IF l = "Power" THEN weights.power
    ELSE IF l = "Fiber" THEN weights.fiber
    ELSE IF l = "Water" THEN weights.water
    ELSE IF l = "Highway" THEN weights.highway
    ELSE IF l = "Rail" THEN weights.rail
    ELSE IF l = "Solar GHI" THEN weights.solar
    ELSE IF l = "Wind" THEN weights.wind
    ELSE IF l = "Low Flood Exposure" THEN weights.flood_risk
    ELSE weights.sentiment

C3_Labels == {"Power", "Fiber", "Water", "Highway", "Rail", "Solar GHI",
              "Wind", "Low Flood Exposure", "Clean History",
              "Council Sentiment"}

C3_Positive == {l \in C3_Labels : C3_Weight(l) > 0}

RECURSIVE C3_Sum(_, _)
\* the sum of f[l] over the labels in L
C3_Sum(f, L) ==
    IF L = {} THEN 0
    ELSE LET l == CHOOSE x \in L : TRUE
         IN  f[l] + C3_Sum(f, L \ {l})

C3_S == C3_Sum([l \in C3_Labels |-> C3_Value(l) * C3_Weight(l)], C3_Positive)
C3_T == C3_Sum([l \in C3_Labels |-> C3_Weight(l) * 100], C3_Positive)

\* C3.  Scoring formula: when the gate does not fire and some weight is
\* positive, the score is 100 * S / T, S the sum of value * weight and T the
\* sum of weight * 100 over the ten factors with positive mapped weight
\* (Clean History and Council Sentiment both under sentiment, Low Flood
\* Exposure under flood_risk), and the contributions map holds
\* value * weight for exactly those factors.
C3_ScoringFormula ==
    (/\ pc = "done"
     /\ ~(parcel.flood_zone_bool /\ flood_risk_slider >= 7)
     /\ \E k \in WeightKeys : weights[k] > 0) =>
        /\ C3_T > 0
        /\ ret.score = [num |-> 100 * C3_S, den |-> C3_T]
        /\ DOMAIN ret.contributions = C3_Positive
        /\ \A l \in C3_Positive :
              ret.contributions[l] = C3_Value(l) * C3_Weight(l)

\* a flood-zone parcel below the gate, the sentiment weight counted twice
C3_Witness ==
    /\ pc = "done"
    /\ parcel = TAP_DATA.Farmington
    /\ flood_risk_slider = 6
    /\ weights = [PERSONA_WEIGHTS["Industrial"] EXCEPT !["flood_risk"] = 6]
    /\ ret.contributions["Low Flood Exposure"] = 40 * 6
    /\ ret.contributions["Clean History"] = 72 * 6
    /\ ret.contributions["Council Sentiment"] = 70 * 6
    /\ total_weight = 100 * (8 + 6 + 7 + 9 + 8 + 3 + 3 + 6 + 6 + 6)

\* C4.  Zero-weight fallback: when all nine weights are 0 the call returns
\* score 0 with an empty contributions map and divides nothing, for
\* flood-zone parcels too.
C4_ZeroWeightFallback ==
    (pc = "done" /\ AllWeightsZero) =>
        /\ ret.score.num = 0
        /\ DOMAIN ret.contributions = {}
        /\ ~divided

\* a flood-zone parcel at flood_risk = 0: the gate is passed, the loop runs
C4_Witness ==
    /\ pc = "done"
    /\ AllWeightsZero
    /\ parcel.flood_zone_bool
    /\ flood_risk_slider = 0
    /\ total_weight = 0
    /\ ret.score.num = 0

OnlyPower == [k \in WeightKeys |-> IF k = "power" THEN 10 ELSE 0]

\* C5 as stated: the Rosemount parcel with power = 10 and every other
\* weight 0 scores 100.
C5_RosemountPowerOnly100 ==
    (pc = "done" /\ parcel = TAP_DATA.Rosemount /\ weights = OnlyPower) =>
        ret.score.num = 100 * ret.score.den

\* C5, amended.  The Rosemount parcel with power = 10 and every other weight
\* 0 scores 92, its power_dist: 100 * (92 * 10) / (10 * 100).
C5_RosemountPowerOnly92 ==
    (pc = "done" /\ parcel = TAP_DATA.Rosemount /\ weights = OnlyPower) =>
        /\ ret.score.num = 92 * ret.score.den
        /\ DOMAIN ret.contributions = {"Power"}
        /\ ret.contributions["Power"] = 920

C5_Witness ==
    /\ pc = "done"
    /\ parcel = TAP_DATA.Rosemount
    /\ weights = OnlyPower
    /\ divided
    /\ weighted_sum = 920
    /\ total_weight = 1000

----------------------------------------------------------------------------
(* Properties of simulate_sentiment_score, checked under SpecSent.         *)

\* the text is empty or holds white space only
S_Blank == \A i \in 1..Len(text) : text[i] \in {" ", "\t", "\n"}

\* two characters equal up to the case of an ASCII letter
S_SameLetter(c, d) ==
    \/ c = d
    \/ \E i \in 1..Len(UpperChars) : {c, d} = {UpperChars[i], LowerChars[i]}

\* the positions of text where term w occurs, whatever the case
S_Occurrences(w) ==
    {i \in 1..Len(text) :
        /\ i + Len(w) - 1 <= Len(text)
        /\ \A j \in 1..Len(w) : S_SameLetter(text[i + j - 1], w[j])}

\* the number of occurrences of w, overlapping ones included
S_AllCount(w) == Cardinality(S_Occurrences(w))

\* the largest number of occurrences of w no two of which overlap
S_DisjointCount(w) ==
    LET disjoint == {O \in SUBSET S_Occurrences(w) :
                        \A a \in O, b \in O : a < b => b - a >= Len(w)}
    IN  CHOOSE n \in 0..Len(text) :
            /\ \E O \in disjoint : Cardinality(O) = n
            /\ \A O \in disjoint : Cardinality(O) <= n

S_Clamped(base) == IF base < 0 THEN 0 ELSE IF base > 100 THEN 100 ELSE base

S_PositiveAll ==
    S_AllCount(w_support) + S_AllCount(w_in_favor) + S_AllCount(w_approve)
    + S_AllCount(w_opportunity) + S_AllCount(w_jobs)
    + S_AllCount(w_investment) + S_AllCount(w_strategic)
    + S_AllCount(w_tax_base)

S_NegativeAll ==
    S_AllCount(w_oppose) + S_AllCount(w_against) + S_AllCount(w_concern)
    + S_AllCount(w_delay) + S_AllCount(w_litigation)
    + S_AllCount(w_moratorium) + S_AllCount(w_protest)
    + S_AllCount(w_traffic) + S_AllCount(w_pollution)

S_PositiveDisjoint ==
    S_DisjointCount(w_support) + S_DisjointCount(w_in_favor)
    + S_DisjointCount(w_approve) + S_DisjointCount(w_opportunity)
    + S_DisjointCount(w_jobs) + S_DisjointCount(w_investment)
    + S_DisjointCount(w_strategic) + S_DisjointCount(w_tax_base)

S_NegativeDisjoint ==
    S_DisjointCount(w_oppose) + S_DisjointCount(w_against)
    + S_DisjointCount(w_concern) + S_DisjointCount(w_delay)
    + S_DisjointCount(w_litigation) + S_DisjointCount(w_moratorium)
    + S_DisjointCount(w_protest) + S_DisjointCount(w_traffic)
    + S_DisjointCount(w_pollution)

\* C6 as stated: 50 on an empty or white-space text, otherwise
\* 50 + 10 * (P - N) clamped to [0,100], P and N the numbers of
\* case-insensitive occurrences of the positive and the negative terms.
C6_SentimentByOccurrences ==
    spc = "done" =>
        sret = IF S_Blank THEN 50
               ELSE S_Clamped(50 + 10 * (S_PositiveAll - S_NegativeAll))

\* C6, amended.  50 on an empty or white-space text, otherwise
\* 50 + 10 * (P - N) clamped to [0,100], P and N counting for each term its
\* case-insensitive occurrences that do not overlap one another (an
\* occurrence that starts inside a counted occurrence of the same term is
\* not counted); the result is an integer multiple of 10 in [0,100], and it
\* is the value the function has on that text.
C6_SentimentByDisjointOccurrences ==
    /\ spc = "counted" =>
          /\ pos_hits = S_PositiveDisjoint
          /\ neg_hits = S_NegativeDisjoint
    /\ spc = "done" =>
          /\ sret = IF S_Blank THEN 50
                    ELSE S_Clamped(50 + 10 * (S_PositiveDisjoint
                                              - S_NegativeDisjoint))
          /\ sret \in 0..100
          /\ sret % 10 = 0
          /\ sret = simulate_sentiment_score(text)

\* "moratoriumoratorium": the term occurs at positions 1 and 10, the two
\* occurrences share a letter, and one hit is counted
C6_Witness ==
    /\ spc = "done"
    /\ text = w_moratorium \o <<"o", "r", "a", "t", "o", "r", "i", "u", "m">>
    /\ S_AllCount(w_moratorium) = 2
    /\ neg_hits = 1
    /\ sret = 40

\* C7 as stated: the example transcript counts 4 positive hits and 0
\* negative hits and returns 90.
C7_SupportText90 ==
    (spc = "done" /\ text = SupportText) =>
        /\ pos_hits = 4
        /\ neg_hits = 0
        /\ sret = 90

\* C7, amended.  On "We strongly support this investment and the jobs it
\* brings" the function counts 3 positive hits (support, investment, jobs)
\* and 0 negative hits and returns 80.
C7_SupportText80 ==
    (spc = "done" /\ text = SupportText) =>
        /\ pos_hits = 3
        /\ neg_hits = 0
        /\ sret = 80
        /\ Count(t, w_support) = 1
        /\ Count(t, w_investment) = 1
        /\ Count(t, w_jobs) = 1

C7_Witness ==
    /\ spc = "done"
    /\ text = SupportText
    /\ t = Lower(SupportText)
    /\ t[1] = "w"
    /\ sret = 80

----------------------------------------------------------------------------
(* Properties of the bucket functions, checked under SpecBucket.           *)

\* C8.  score_to_bucket returns High iff score >= 75, Medium iff
\* 50 <= score < 75, Low iff score < 50, and bucket_to_class gives
\* pill-high, pill-medium, pill-low on exactly the same scores.
C8_Bucketizer ==
    /\ bpc \in {"bucketed", "done"} =>
          /\ bucket = "High" <=> bscore.num >= 75 * bscore.den
          /\ bucket = "Medium" <=>
                (bscore.num >= 50 * bscore.den
                 /\ bscore.num < 75 * bscore.den)
          /\ bucket = "Low" <=> bscore.num < 50 * bscore.den
    /\ bpc = "done" =>
          /\ pill_class = "pill-high" <=> bucket = "High"
          /\ pill_class = "pill-medium" <=> bucket = "Medium"
          /\ pill_class = "pill-low" <=> bucket = "Low"

\* the boundary score 75 goes to the higher tier
C8_Witness ==
    /\ bpc = "done"
    /\ bscore.num = 75 * bscore.den
    /\ bucket = "High"
    /\ pill_class = "pill-high"

----------------------------------------------------------------------------
(* Properties of the session, checked under Spec.                          *)

\* C9.  After any sequence of persona selections, slider moves, resets and
\* scraper runs, each of the nine session weights is an integer in [0,10].
C9_WeightBounds ==
    Loaded => \A k \in WeightKeys : session_state[k] \in 0..10

\* a scraper run on a transcript scoring 100 has set the sentiment weight
C9_Witness ==
    /\ last_op = "scrape"
    /\ last_scraped_sentiment = <<100>>
    /\ session_state["sentiment"] = 10
    /\ persona = "Solar"

\* C10 as stated: selecting persona P sets the nine session weights to P's
\* defaults exactly when P has not been seeded earlier in the session, and
\* otherwise leaves the weights as they are.
C10_SeedOncePerPersona ==
    [][(last_op' = "select" /\ steps' = steps + 1) =>
          IF persona' \in selected
          THEN session_state' = session_state
          ELSE session_state' = PERSONA_WEIGHTS[persona']]_vars

====
